---- MODULE Spec2Model ----
(***************************************************************************)
(* One run of src/splf_app.py (the SPLF dashboard script): fetch the live  *)
(* feed, load the two CSV files, then (when the feed and the assignment    *)
(* table are there) compute the owner standings, the all-time historical   *)
(* summary and the rivalry matrix.                                         *)
(*                                                                         *)
(* Conventions of the model                                                *)
(*  - An owner name is an integer of 1..NumOwners; the integer order is    *)
(*    the lexicographic order of the names (Python's < on str).            *)
(*  - A team name is a sequence of words: "Leeds FC" is <<"Leeds","FC">>.  *)
(*  - A float is an exact fraction [n |-> numerator, d |-> denominator],   *)
(*    d > 0: the model has no rounding error.                              *)
(*  - A DataFrame is a sequence of rows (records).  Only the columns the   *)
(*    claims read are carried: the columns GP, W, D, L of the live table   *)
(*    and W, D, L, GD of the archive go through the same 'sum' as Pts.     *)
(*  - None is a record with none = TRUE (and empty payload).               *)
(***************************************************************************)
EXTENDS Integers, Sequences, FiniteSets, TLC

\* ---------------------------------------------------------------- bounds
NumOwners == 5
MaxMatches == 2

Owners == 1..NumOwners
PtsVals == {20, 30, 40, 50}

\* ------------------------------------------------------ program constants
\* the divisor of the quota (lines 69 and 210)
QuotaDivisor == 5
\* the HTTP status fetch_live_data accepts (line 25)
HTTP_OK == 200
\* the "Tied" leader of a rivalry row (line 161); 0 is no owner
Tied == 0

\* ------------------------------------------------------------- fractions
Rat(n, d) == [n |-> n, d |-> d]
RatEq(a, b) == a.n * b.d = b.n * a.d
RatLeq(a, b) == a.n * b.d <= b.n * a.d
RatAdd(a, b) == IF a.d = b.d THEN Rat(a.n + b.n, a.d)
                ELSE Rat(a.n * b.d + b.n * a.d, a.d * b.d)
\* (x - q) * k for an integer x and a fraction q
RatScaledDiff(x, q, k) == Rat((x * q.d - q.n) * k, q.d)

RECURSIVE SumSeq(_)
SumSeq(s) == IF s = <<>> THEN 0 ELSE Head(s) + SumSeq(Tail(s))

RECURSIVE RatSumSeq(_)
RatSumSeq(s) == IF s = <<>> THEN Rat(0, 1)
                ELSE IF Len(s) = 1 THEN s[1]
                ELSE RatAdd(Head(s), RatSumSeq(Tail(s)))

RECURSIVE ProdSeq(_)
ProdSeq(s) == IF s = <<>> THEN 1 ELSE Head(s) * ProdSeq(Tail(s))

\* integer sort keys of a sequence of fractions: all over one denominator
RatKeys(rats) ==
    LET lcd == ProdSeq([i \in DOMAIN rats |-> rats[i].d])
    IN  [i \in DOMAIN rats |-> rats[i].n * (lcd \div rats[i].d)]

\* ------------------------------------------------------ sorting, grouping
\* the ascending sequence of a finite set of integers (groupby sorts its keys)
RECURSIVE SortedKeys(_)
SortedKeys(S) ==
    IF S = {} THEN <<>>
    ELSE LET m == CHOOSE x \in S : \A y \in S : x <= y
         IN  <<m>> \o SortedKeys(S \ {m})

\* every order of the indices I that is descending in key: what
\* sort_values(col, ascending=False) may return, its default sort (quicksort)
\* giving no promise on the order of equal keys
RECURSIVE DescOrders(_, _)
DescOrders(I, key) ==
    IF I = {} THEN {<<>>}
    ELSE UNION { { <<i>> \o p : p \in DescOrders(I \ {i}, key) } :
                 i \in {j \in I : \A k \in I : key[k] <= key[j]} }

Permute(rows, order) == [i \in DOMAIN order |-> rows[order[i]]]

\* a stable descending sort on two integer columns (the lexsort pandas uses
\* for sort_values on a list of columns)
Before2(a, b) == a.Pts > b.Pts \/ (a.Pts = b.Pts /\ a.GD > b.GD)
RECURSIVE InsertStable(_, _)
InsertStable(sorted, r) ==
    IF sorted = <<>> THEN <<r>>
    ELSE IF Before2(r, Head(sorted)) THEN <<r>> \o sorted
    ELSE <<Head(sorted)>> \o InsertStable(Tail(sorted), r)
RECURSIVE StableSortDesc(_)
StableSortDesc(rows) ==
    IF rows = <<>> THEN <<>>
    ELSE InsertStable(StableSortDesc(SubSeq(rows, 1, Len(rows) - 1)), rows[Len(rows)])

\* ------------------------------------------------------- name normalizer
\* str.replace(' ' + word, ''): a word is dropped wherever it follows a space,
\* that is everywhere but at the start of the name
Replace(name, word) ==
    IF name = <<>> THEN <<>>
    ELSE <<Head(name)>> \o SelectSeq(Tail(name), LAMBDA w : w # word)
\* line 191: x['name'].replace(' FC', '').replace(' AFC', '').strip()
StripName(name) == Replace(Replace(name, "FC"), "AFC")

\* --------------------------------------------------- standings aggregator
\* lines 189-193: the live table with the normalised Team column
EplDf(table) ==
    [i \in DOMAIN table |->
        [Team |-> StripName(table[i].name), Pts |-> table[i].Pts, GD |-> table[i].GD]]

\* one assignment row of pd.merge(assignments, epl_df, on="Team", how="left")
\* followed by fillna(0): a row per matching live row, a zero row when none
MergeRow(a, epl) ==
    LET m == SelectSeq(epl, LAMBDA e : e.Team = a.Team)
    IN  IF m = <<>>
        THEN <<[Team |-> a.Team, Owner |-> a.Owner, Pts |-> 0, GD |-> 0]>>
        ELSE [i \in DOMAIN m |->
                [Team |-> a.Team, Owner |-> a.Owner, Pts |-> m[i].Pts, GD |-> m[i].GD]]

\* line 196
RECURSIVE MergeLeft(_, _)
MergeLeft(assign, epl) ==
    IF assign = <<>> THEN <<>>
    ELSE MergeRow(Head(assign), epl) \o MergeLeft(Tail(assign), epl)

ColPts(rows) == [i \in DOMAIN rows |-> rows[i].Pts]
ColGD(rows) == [i \in DOMAIN rows |-> rows[i].GD]
OwnersOf(rows) == {rows[i].Owner : i \in DOMAIN rows}

\* lines 199-206: groupby("Owner").agg(sum).reset_index(), keys ascending
GroupByOwner(rows) ==
    LET keys == SortedKeys(OwnersOf(rows))
    IN  [k \in DOMAIN keys |->
            LET g == SelectSeq(rows, LAMBDA r : r.Owner = keys[k])
            IN  [Owner |-> keys[k], Pts |-> SumSeq(ColPts(g)), GD |-> SumSeq(ColGD(g))]]

\* lines 209-210: quota = owner_stats['Pts'].sum() / 5
LeagueQuota(stats) == Rat(SumSeq(ColPts(stats)), QuotaDivisor)

\* line 211: owner_stats['Money'] = (owner_stats['Pts'] - quota) * 10
WithMoney(stats, q) ==
    [i \in DOMAIN stats |->
        [Owner |-> stats[i].Owner, Pts |-> stats[i].Pts, GD |-> stats[i].GD,
         Money |-> RatScaledDiff(stats[i].Pts, q, 10)]]

\* ---------------------------------------------- historical stats calculator
RECURSIVE Flatten(_)
Flatten(ss) == IF ss = <<>> THEN <<>> ELSE Head(ss) \o Flatten(Tail(ss))

\* line 61: groupby(['Season', 'Owner'])['Pts'].sum().reset_index()
SeasonOwnerPts(rows) ==
    LET seasons == SortedKeys({rows[i].Season : i \in DOMAIN rows})
    IN  Flatten([s \in DOMAIN seasons |->
            LET inSeason == SelectSeq(rows, LAMBDA r : r.Season = seasons[s])
                keys == SortedKeys(OwnersOf(inSeason))
            IN  [k \in DOMAIN keys |->
                    [Season |-> seasons[s], Owner |-> keys[k],
                     Pts |-> SumSeq(ColPts(SelectSeq(inSeason,
                                        LAMBDA r : r.Owner = keys[k])))]]])

\* lines 64-68: the season's summed points, merged back on Season
SeasonTotal(ss, season) == SumSeq(ColPts(SelectSeq(ss, LAMBDA r : r.Season = season)))

\* line 69: season_stats['Quota'] = season_stats['Season_Total'] / 5
SeasonQuota(total) == Rat(total, QuotaDivisor)

\* the rank with method='dense': the positions after a tie are not skipped
RankInSeason_Dense(ss, i) ==
    1 + Cardinality({ss[j].Pts : j \in {k \in DOMAIN ss :
                        ss[k].Season = ss[i].Season /\ ss[k].Pts > ss[i].Pts}})

\* line 89: groupby('Season')['Pts'].rank(ascending=False, method='min'): the
\* first position, in the season's descending order, of the rows with these points
RankInSeason(ss, i) ==
    1 + Cardinality({j \in DOMAIN ss : ss[j].Season = ss[i].Season /\ ss[j].Pts > ss[i].Pts})

\* lines 91-97
get_player_medals(rank) ==
    IF rank = 1 THEN 5
    ELSE IF rank = 2 THEN 4
    ELSE IF rank = 3 THEN 3
    ELSE IF rank = 4 THEN 2
    ELSE IF rank = 5 THEN 1
    ELSE 0

\* lines 61-70, 89, 99: season_stats with all its columns
SeasonStats(rows) ==
    LET ss == SeasonOwnerPts(rows)
    IN  [i \in DOMAIN ss |->
            LET total == SeasonTotal(ss, ss[i].Season)
                q == SeasonQuota(total)
                rk == RankInSeason(ss, i)
            IN  [Season |-> ss[i].Season, Owner |-> ss[i].Owner, Pts |-> ss[i].Pts,
                 Season_Total |-> total, Quota |-> q,
                 Money |-> RatScaledDiff(ss[i].Pts, q, 10),
                 Rank_In_Season |-> rk, Player_Medals |-> get_player_medals(rk)]]

\* lines 76-80
TeamMedals(rank) ==
    IF rank = 1 THEN 4
    ELSE IF rank = 2 THEN 3
    ELSE IF rank = 3 THEN 2
    ELSE IF rank = 4 THEN 1
    ELSE 0

\* line 85
Relegated(rank) == IF rank >= 18 THEN 1 ELSE 0

\* lines 76-85: the two columns the function writes INTO its argument
WithMedalColumns(rows) ==
    [i \in DOMAIN rows |->
        [rows[i] EXCEPT !.Team_Medals = TeamMedals(rows[i].Rank),
                        !.Relegated = Relegated(rows[i].Rank)]]

ColOf(rows, c) == [i \in DOMAIN rows |-> rows[i][c]]

\* lines 52-58, 73, 82, 86, 100, 103: one summary row per owner, keys ascending
SummaryRows(raw, ss) ==
    LET keys == SortedKeys(OwnersOf(raw))
    IN  [k \in DOMAIN keys |->
            LET mine == SelectSeq(raw, LAMBDA r : r.Owner = keys[k])
                myss == SelectSeq(ss, LAMBDA r : r.Owner = keys[k])
            IN  [Owner |-> keys[k],
                 Pts |-> SumSeq(ColPts(mine)),
                 Money |-> RatSumSeq(ColOf(myss, "Money")),
                 Team_Medals |-> SumSeq(ColOf(mine, "Team_Medals")),
                 Teams_Relagated |-> SumSeq(ColOf(mine, "Relegated")),
                 Player_Medals |-> SumSeq(ColOf(myss, "Player_Medals"))]]

\* lines 104-107: the rows in the order of the sort, Rank = position from 1
RankedSummary(rows, order) ==
    [i \in DOMAIN order |->
        [Rank |-> i,
         Owner |-> rows[order[i]].Owner,
         Pts |-> rows[order[i]].Pts,
         Money |-> rows[order[i]].Money,
         Team_Medals |-> rows[order[i]].Team_Medals,
         Teams_Relagated |-> rows[order[i]].Teams_Relagated,
         Player_Medals |-> rows[order[i]].Player_Medals]]

\* the summary left in the order of the groupby (no sort on Money)
MoneyOrders_Unsorted(rows) == {[i \in DOMAIN rows |-> i]}

\* line 104: the orders sort_values("Money", ascending=False) may produce
MoneyOrders(rows) == DescOrders(DOMAIN rows, RatKeys(ColOf(rows, "Money")))

\* ------------------------------------------------------ rivalry matrix builder
\* dict[k] = v
Put(m, k, v) == [x \in (DOMAIN m) \cup {k} |-> IF x = k THEN v ELSE m[x]]
EmptyDict == [x \in {} |-> 0]

\* lines 114-118: team, team + ' FC' and team + ' AFC' all map to the owner
RECURSIVE BuildOwnerMap(_, _)
BuildOwnerMap(m, assign) ==
    IF assign = <<>> THEN m
    ELSE LET r == Head(assign)
             m1 == Put(m, r.Team, r.Owner)
             m2 == Put(m1, Append(r.Team, "FC"), r.Owner)
             m3 == Put(m2, Append(r.Team, "AFC"), r.Owner)
         IN  BuildOwnerMap(m3, Tail(assign))

\* lines 134-135, 138: the key of the pair, lower owner first
PairOf(owner_home, owner_away) ==
    IF owner_home < owner_away THEN <<owner_home, owner_away>>
    ELSE <<owner_away, owner_home>>

\* the result taken from the home side whatever the order of the pair
ResIdx_HomeFirst(winner, owner_home, owner_away) ==
    IF winner = "HOME_TEAM" THEN 0 ELSE IF winner = "AWAY_TEAM" THEN 2 ELSE 1

\* lines 136, 139-141: the counter the match increments (0 = first owner of
\* the pair wins, 1 = draw, 2 = second owner wins)
ResIdx(winner, owner_home, owner_away) ==
    IF owner_home < owner_away
    THEN (IF winner = "HOME_TEAM" THEN 0 ELSE IF winner = "AWAY_TEAM" THEN 2 ELSE 1)
    ELSE (IF winner = "HOME_TEAM" THEN 2 ELSE IF winner = "AWAY_TEAM" THEN 0 ELSE 1)

\* the loop without the test on the status: unplayed matches are counted
TallyMatch_AnyStatus(riv, m, owner_map) ==
    IF ~(m.home \in DOMAIN owner_map /\ m.away \in DOMAIN owner_map) THEN riv
    ELSE LET owner_home == owner_map[m.home]
             owner_away == owner_map[m.away]
         IN  IF owner_home = owner_away THEN riv
             ELSE LET pair == PairOf(owner_home, owner_away)
                      res_idx == ResIdx(m.winner, owner_home, owner_away)
                      old == IF pair \in DOMAIN riv THEN riv[pair]
                             ELSE [k \in 0..2 |-> 0]
                  IN  Put(riv, pair, [old EXCEPT ![res_idx] = @ + 1])

\* lines 124-144: the body of the loop for one match
TallyMatch(riv, m, owner_map) ==
    IF m.status # "FINISHED" THEN riv
    ELSE IF ~(m.home \in DOMAIN owner_map /\ m.away \in DOMAIN owner_map) THEN riv
    ELSE LET owner_home == owner_map[m.home]
             owner_away == owner_map[m.away]
         IN  IF owner_home = owner_away THEN riv
             ELSE LET pair == PairOf(owner_home, owner_away)
                      res_idx == ResIdx(m.winner, owner_home, owner_away)
                      old == IF pair \in DOMAIN riv THEN riv[pair]
                             ELSE [k \in 0..2 |-> 0]
                  IN  Put(riv, pair, [old EXCEPT ![res_idx] = @ + 1])

\* lines 121-144: the loop
RECURSIVE TallyMatches(_, _, _)
TallyMatches(riv, matches, owner_map) ==
    IF matches = <<>> THEN riv
    ELSE TallyMatches(TallyMatch(riv, Head(matches), owner_map), Tail(matches), owner_map)

\* lines 148-171: the row of one pair
RivalryRow(pair, record) ==
    LET w1 == record[0]
        d == record[1]
        w2 == record[2]
        total == w1 + d + w2
    IN  IF w1 > w2
        THEN [Matchup |-> pair, Leader |-> pair[1], Record |-> <<w1, d, w2>>,
              Total_Games |-> total, Dominance |-> Rat(w1 * 100, total)]
        ELSE IF w2 > w1
        THEN [Matchup |-> pair, Leader |-> pair[2], Record |-> <<w2, d, w1>>,
              Total_Games |-> total, Dominance |-> Rat(w2 * 100, total)]
        ELSE [Matchup |-> pair, Leader |-> Tied, Record |-> <<w1, d, w2>>,
              Total_Games |-> total, Dominance |-> Rat(50, 1)]

RECURSIVE SeqOfSet(_)
SeqOfSet(S) ==
    IF S = {} THEN <<>>
    ELSE LET x == CHOOSE y \in S : TRUE IN <<x>> \o SeqOfSet(S \ {x})

\* lines 146-171: a row per pair with at least one game
RivalryRows(riv) ==
    LET pairs == SeqOfSet({p \in DOMAIN riv : riv[p][0] + riv[p][1] + riv[p][2] # 0})
    IN  [i \in DOMAIN pairs |-> RivalryRow(pairs[i], riv[pairs[i]])]

\* lines 173-176: the orders sort_values("Dominance %", ascending=False) may produce
DominanceOrders(rows) == DescOrders(DOMAIN rows, RatKeys(ColOf(rows, "Dominance")))

\* ------------------------------------------------------------------ inputs
TeamA == <<"TeamA">>
TeamB == <<"TeamB">>
TeamC == <<"TeamC">>
TeamA_FC == <<"TeamA", "FC">>
TeamC_AFC == <<"TeamC", "AFC">>
TeamX_FC == <<"TeamX", "FC">>

ARow(team, owner) == [Team |-> team, Owner |-> owner]
\* a row of the archive as read from the CSV: the two columns the calculator
\* adds are absent (-1)
HRow(season, owner, rank, pts) ==
    [Season |-> season, Owner |-> owner, Rank |-> rank, Pts |-> pts,
     Team_Medals |-> -1, Relegated |-> -1]
LRow(name, pts, gd) == [name |-> name, Pts |-> pts, GD |-> gd]
Match(status, home, away, winner) ==
    [status |-> status, home |-> home, away |-> away, winner |-> winner]

BaseCols == {"Season", "Owner", "Team", "Rank", "Pts", "W", "D", "L", "GD"}

\* the nominal inputs: the end-to-end scenario of the spec
NomAssign == <<ARow(TeamA, 1), ARow(TeamB, 2)>>
NomTable == <<LRow(TeamA_FC, 30, 2), LRow(TeamB, 20, -1)>>
NomArchive == <<HRow(1, 1, 1, 50), HRow(1, 2, 18, 20), HRow(2, 1, 4, 30), HRow(2, 2, 2, 40)>>
NomMatches == <<Match("FINISHED", TeamA_FC, TeamB, "HOME_TEAM")>>

\* assignment tables of three teams
Assigns3 ==
    { <<ARow(TeamA, f[1]), ARow(TeamB, f[2]), ARow(TeamC, f[3])>> :
        f \in [1..3 -> Owners] }

\* live tables: any non-empty part of three feed rows, TeamX having no owner
FeedNames == <<TeamA_FC, TeamB, TeamX_FC>>
FeedGD == <<2, -1, 0>>
LiveTables ==
    UNION { { LET keys == SortedKeys(S)
              IN  [k \in DOMAIN keys |->
                      LRow(FeedNames[keys[k]], pts[keys[k]], FeedGD[keys[k]])] :
              pts \in [S -> {20, 30}] } :
            S \in (SUBSET (1..3)) \ {{}} }

\* archives, wide: one season of the league of five, every owner with one team
League == 1..5
WideArchives ==
    { [o \in League |-> HRow(1, o, o, pts[o])] : pts \in [League -> PtsVals] }

\* archives, deep: two seasons of two teams, each row there or not
DeepRank == <<1, 18, 4, 19>>
DeepCells == {<<0, 0>>} \cup ({1, 2} \X {20, 30})
DeepArchives ==
    { SelectSeq([k \in 1..4 |-> HRow(1 + ((k - 1) \div 2), c[k][1], DeepRank[k], c[k][2])],
                LAMBDA r : r.Owner # 0) :
      c \in [1..4 -> DeepCells] }

\* archives, crowded: one season with one owner more than Owners, all with
\* different points
CrowdedArchives ==
    { [o \in 1..(NumOwners + 1) |->
          HRow(1, o, o, 10 * (1 + ((o + k) % (NumOwners + 1))))] :
      k \in 0..NumOwners }

\* matches documents
Fixtures == {<<TeamA_FC, TeamB>>, <<TeamB, TeamA_FC>>, <<TeamA_FC, TeamC_AFC>>,
             <<TeamX_FC, TeamB>>}
Winners == {"HOME_TEAM", "AWAY_TEAM", "DRAW", "null"}
MatchKinds ==
    { Match("FINISHED", fx[1], fx[2], w) : fx \in Fixtures, w \in Winners }
    \cup { Match("SCHEDULED", TeamA_FC, TeamB, "null") }
MatchLists == UNION { [1..n -> MatchKinds] : n \in 0..MaxMatches }
RivAssigns ==
    { <<ARow(TeamA, 1), ARow(TeamB, 2), ARow(TeamC, 3)>>,
      <<ARow(TeamA, 2), ARow(TeamB, 1), ARow(TeamC, 2)>> }

Http(status, table) == [status |-> status, table |-> table]
HttpM(status, json, matches) == [status |-> status, json |-> json, matches |-> matches]
File(exists, rows) == [exists |-> exists, rows |-> rows]

\* ------------------------------------------------------------------- state
VARIABLES
    http_standings,   \* the response to the standings request
    http_matches,     \* the response to the matches request
    file_assignments, \* data/team_assignments.csv
    file_history,     \* data/SPLF - HistTables.csv
    pc,               \* where the script is
    data_standings, data_matches,   \* line 183
    assignments, history_raw,       \* line 184
    merged_df, owner_stats, quota,  \* lines 196-212
    season_stats,                   \* the local of calculate_historical_stats
    history_summary,                \* line 258
    rivalries,                      \* the local dict of generate_rivalry_matrix
    rivalry_df,                     \* line 280
    ui,                             \* what the page shows
    raised                          \* the exception that ended the script

inputs == <<http_standings, http_matches, file_assignments, file_history>>
vars == <<http_standings, http_matches, file_assignments, file_history, pc,
          data_standings, data_matches, assignments, history_raw, merged_df,
          owner_stats, quota, season_stats, history_summary, rivalries, rivalry_df,
          ui, raised>>

NoDoc == [none |-> TRUE, table |-> <<>>]
NoMatchesDoc == [none |-> TRUE, has_matches |-> FALSE, matches |-> <<>>]
NoFrame == [none |-> TRUE, cols |-> {}, rows |-> <<>>]
Widget(kind, about, teams) == [widget |-> kind, about |-> about, teams |-> teams]

\* the inputs of a run: the two responses and the two files
Inputs(hs, hm, fa, fh) ==
    /\ http_standings = hs
    /\ http_matches = hm
    /\ file_assignments = fa
    /\ file_history = fh

\* any status and body of the two requests, any file there or not
ControlInputs ==
    \E hs \in {Http(HTTP_OK, NomTable), Http(429, <<>>)} :
    \E hm \in {HttpM(HTTP_OK, TRUE, NomMatches), HttpM(HTTP_OK, TRUE, <<>>),
               HttpM(429, TRUE, <<>>), HttpM(429, FALSE, <<>>)} :
    \E fa \in {File(TRUE, NomAssign), File(FALSE, <<>>)} :
    \E fh \in {File(TRUE, NomArchive), File(TRUE, <<>>), File(FALSE, <<>>)} :
        Inputs(hs, hm, fa, fh)
\* any live table against any assignment table
StandingsInputs ==
    \E t \in LiveTables : \E a \in Assigns3 :
        Inputs(Http(HTTP_OK, t), HttpM(HTTP_OK, TRUE, NomMatches), File(TRUE, a),
               File(TRUE, NomArchive))
\* any archive
HistoryInputs ==
    \E h \in WideArchives \cup DeepArchives \cup CrowdedArchives :
        Inputs(Http(HTTP_OK, NomTable), HttpM(HTTP_OK, TRUE, NomMatches),
               File(TRUE, NomAssign), File(TRUE, h))
\* any list of matches
RivalryInputs ==
    \E ms \in MatchLists : \E a \in RivAssigns :
        Inputs(Http(HTTP_OK, NomTable), HttpM(HTTP_OK, TRUE, ms), File(TRUE, a),
               File(TRUE, NomArchive))

Init ==
    /\ (ControlInputs \/ StandingsInputs \/ HistoryInputs \/ RivalryInputs)
    /\ pc = "fetch"
    /\ data_standings = NoDoc
    /\ data_matches = NoMatchesDoc
    /\ assignments = NoFrame
    /\ history_raw = NoFrame
    /\ merged_df = <<>>
    /\ owner_stats = <<>>
    /\ quota = Rat(0, 1)
    /\ season_stats = <<>>
    /\ history_summary = <<>>
    /\ rivalries = EmptyDict
    /\ rivalry_df = <<>>
    /\ ui = {}
    /\ raised = "none"

\* ----------------------------------------------------------- the functions
\* lines 44-109.  The result carries, beside the returned summary, the frame
\* the caller passed (the function writes two columns into it) and the local
\* season_stats.  One result per order the final sort may produce.
calculate_historical_stats(raw_df) ==
    IF raw_df.rows = <<>>
    THEN {[raw_df |-> raw_df, season_stats |-> <<>>, summary |-> <<>>]}
    ELSE LET ss == SeasonStats(raw_df.rows)
             marked == WithMedalColumns(raw_df.rows)
             rows == SummaryRows(marked, ss)
         IN  { [raw_df |-> [none |-> FALSE,
                            cols |-> raw_df.cols \cup {"Team_Medals", "Relegated"},
                            rows |-> marked],
                season_stats |-> ss,
                summary |-> RankedSummary(rows, order)] :
               order \in MoneyOrders(rows) }

\* lines 111-176.  matches_json is falsy when it is None; a document without
\* the key 'matches' raises KeyError at line 120.
generate_rivalry_matrix(matches_json, assign) ==
    IF matches_json.none
    THEN {[raises |-> FALSE, rivalries |-> EmptyDict, df |-> <<>>]}
    ELSE IF ~matches_json.has_matches
    THEN {[raises |-> TRUE, rivalries |-> EmptyDict, df |-> <<>>]}
    ELSE LET owner_map == BuildOwnerMap(EmptyDict, assign)
             riv == TallyMatches(EmptyDict, matches_json.matches, owner_map)
             rows == RivalryRows(riv)
         IN  { [raises |-> FALSE, rivalries |-> riv, df |-> Permute(rows, order)] :
               order \in DominanceOrders(rows) }

\* ------------------------------------------------------------------ actions
\* lines 17-27 and 183
FetchLiveData ==
    /\ pc = "fetch"
    /\ IF http_standings.status # HTTP_OK
       THEN /\ data_standings' = NoDoc
            /\ data_matches' = NoMatchesDoc
            /\ pc' = "load"
            /\ raised' = raised
       ELSE IF ~http_matches.json
       THEN \* res_matches.json() raises on a body that is no JSON
            /\ raised' = "JSONDecodeError"
            /\ pc' = "done"
            /\ UNCHANGED <<data_standings, data_matches>>
       ELSE /\ data_standings' = [none |-> FALSE, table |-> http_standings.table]
            /\ data_matches' = [none |-> FALSE,
                                has_matches |-> http_matches.status = HTTP_OK,
                                matches |-> http_matches.matches]
            /\ pc' = "load"
            /\ raised' = raised
    /\ UNCHANGED <<inputs, assignments, history_raw, merged_df, owner_stats, quota,
                   season_stats, history_summary, rivalries, rivalry_df, ui>>

\* lines 29-42 and 184
LoadLocalFiles ==
    /\ pc = "load"
    /\ IF ~file_assignments.exists
       THEN /\ ui' = ui \cup {Widget("error", "assignments_missing", {})}
            /\ assignments' = NoFrame
            /\ history_raw' = NoFrame
       ELSE /\ ui' = ui
            /\ assignments' = [none |-> FALSE, cols |-> {"Team", "Owner"},
                               rows |-> file_assignments.rows]
            /\ history_raw' = IF file_history.exists
                              THEN [none |-> FALSE, cols |-> BaseCols,
                                    rows |-> file_history.rows]
                              ELSE [none |-> FALSE, cols |-> {}, rows |-> <<>>]
    /\ pc' = "main"
    /\ UNCHANGED <<inputs, data_standings, data_matches, merged_df, owner_stats, quota,
                   season_stats, history_summary, rivalries, rivalry_df, raised>>

\* line 186
LiveAvailable == ~data_standings.none /\ ~assignments.none

\* lines 186-248: the standings of the owners and the table of the teams
ProcessStandings ==
    /\ pc = "main"
    /\ LiveAvailable
    /\ LET epl_df == EplDf(data_standings.table)
           merged == MergeLeft(assignments.rows, epl_df)
           stats == GroupByOwner(merged)
           q == LeagueQuota(stats)
           money == WithMoney(stats, q)
       IN  /\ \E order \in DescOrders(DOMAIN money, ColPts(money)) :
                owner_stats' = Permute(money, order)
           /\ quota' = q
           /\ merged_df' = StableSortDesc(merged)
           /\ ui' = ui \cup {Widget("dataframe", "owner_stats", {}),
                             Widget("dataframe", "merged_df",
                                    {merged[i].Team : i \in DOMAIN merged})}
    /\ pc' = "history"
    /\ UNCHANGED <<inputs, data_standings, data_matches, assignments, history_raw,
                   season_stats, history_summary, rivalries, rivalry_df, raised>>

\* line 186, the condition false: nothing of the page below it is run
SkipLiveReports ==
    /\ pc = "main"
    /\ ~LiveAvailable
    /\ pc' = "done"
    /\ UNCHANGED <<inputs, data_standings, data_matches, assignments, history_raw,
                   merged_df, owner_stats, quota, season_stats, history_summary,
                   rivalries, rivalry_df, ui, raised>>

\* lines 252-276
RenderHistory ==
    /\ pc = "history"
    /\ IF history_raw.rows # <<>>
       THEN \E res \in calculate_historical_stats(history_raw) :
                /\ history_summary' = res.summary
                /\ history_raw' = res.raw_df
                /\ season_stats' = res.season_stats
                /\ ui' = ui \cup {Widget("dataframe", "history_summary", {})}
       ELSE /\ ui' = ui \cup {Widget("warning", "history_empty", {})}
            /\ UNCHANGED <<history_summary, history_raw, season_stats>>
    /\ pc' = "h2h"
    /\ UNCHANGED <<inputs, data_standings, data_matches, assignments, merged_df,
                   owner_stats, quota, rivalries, rivalry_df, raised>>

\* lines 278-297
RenderRivalry ==
    /\ pc = "h2h"
    /\ \E res \in generate_rivalry_matrix(data_matches, assignments.rows) :
        IF res.raises
        THEN /\ raised' = "KeyError"
             /\ UNCHANGED <<rivalries, rivalry_df, ui>>
        ELSE /\ raised' = raised
             /\ rivalries' = res.rivalries
             /\ rivalry_df' = res.df
             /\ ui' = ui \cup {IF res.df # <<>>
                               THEN Widget("dataframe", "rivalry_df", {})
                               ELSE Widget("info", "no_h2h", {})}
    /\ pc' = "done"
    /\ UNCHANGED <<inputs, data_standings, data_matches, assignments, history_raw,
                   merged_df, owner_stats, quota, season_stats, history_summary>>

Next ==
    \/ FetchLiveData
    \/ LoadLocalFiles
    \/ ProcessStandings
    \/ SkipLiveReports
    \/ RenderHistory
    \/ RenderRivalry

Spec == Init /\ [][Next]_vars

\* =================================================================== claims
\* what the claims speak of, said without the code's own helpers
RivalryDone == pc = "done" /\ raised = "none" /\ LiveAvailable
FetchFailed == http_standings.status # HTTP_OK \/ http_matches.status # HTTP_OK
Shown(kind, about) == \E w \in ui : w.widget = kind /\ w.about = about
\* the script has computed and shown the table
StandingsDone == Shown("dataframe", "owner_stats")
HistoryDone == Shown("dataframe", "history_summary")

\* the names an assignment row answers to: the team, bare or with a suffix
NamesOfRow(r) == {r.Team, Append(r.Team, "FC"), Append(r.Team, "AFC")}
Mapped(name) == \E i \in DOMAIN assignments.rows : name \in NamesOfRow(assignments.rows[i])
OwnerOfName(name) ==
    assignments.rows[CHOOSE i \in DOMAIN assignments.rows :
                        name \in NamesOfRow(assignments.rows[i])].Owner

TheMatches == data_matches.matches
\* a match the rivalry matrix has to count
Counted(m) ==
    /\ m.status = "FINISHED"
    /\ Mapped(m.home) /\ Mapped(m.away)
    /\ OwnerOfName(m.home) # OwnerOfName(m.away)
Games(A, B) ==
    {i \in DOMAIN TheMatches :
        /\ Counted(TheMatches[i])
        /\ {OwnerOfName(TheMatches[i].home), OwnerOfName(TheMatches[i].away)} = {A, B}}
\* the owner of the team that won, Tied when no team did
WinnerOwner(m) ==
    IF m.winner = "HOME_TEAM" THEN OwnerOfName(m.home)
    ELSE IF m.winner = "AWAY_TEAM" THEN OwnerOfName(m.away)
    ELSE Tied
RecordOf(A, B) ==
    IF <<A, B>> \in DOMAIN rivalries THEN rivalries[<<A, B>>] ELSE [k \in 0..2 |-> 0]
\* the same match seen from the other ground
SwapMatch(m) ==
    Match(m.status, m.away, m.home,
          IF m.winner = "HOME_TEAM" THEN "AWAY_TEAM"
          ELSE IF m.winner = "AWAY_TEAM" THEN "HOME_TEAM"
          ELSE m.winner)
\* the owners of the assignment table
TheOwners == OwnersOf(assignments.rows)

\* C5: every counted match between owners A < B is recorded under the one key
\* (A, B), a win of A's team in wins_a, a win of B's team in wins_b, a draw in
\* draws, whoever played at home; the matches with home and away (and the
\* winner) swapped give the same records.
C5_CanonicalPairRecord ==
    RivalryDone =>
        /\ \A p \in DOMAIN rivalries :
              p[1] < p[2] /\ p[1] \in TheOwners /\ p[2] \in TheOwners
        /\ \A A \in TheOwners : \A B \in TheOwners :
            A < B =>
                /\ RecordOf(A, B)[0] =
                     Cardinality({i \in Games(A, B) : WinnerOwner(TheMatches[i]) = A})
                /\ RecordOf(A, B)[2] =
                     Cardinality({i \in Games(A, B) : WinnerOwner(TheMatches[i]) = B})
                /\ RecordOf(A, B)[1] >=
                     Cardinality({i \in Games(A, B) : TheMatches[i].winner = "DRAW"})
        /\ rivalries = TallyMatches(EmptyDict,
                                    [i \in DOMAIN TheMatches |-> SwapMatch(TheMatches[i])],
                                    BuildOwnerMap(EmptyDict, assignments.rows))

\* a home win of the team of the HIGHER owner of the pair is in wins_b
C5_Witness ==
    /\ RivalryDone
    /\ \E i \in DOMAIN TheMatches :
        /\ Counted(TheMatches[i])
        /\ TheMatches[i].winner = "HOME_TEAM"
        /\ OwnerOfName(TheMatches[i].home) > OwnerOfName(TheMatches[i].away)
        /\ RecordOf(OwnerOfName(TheMatches[i].away), OwnerOfName(TheMatches[i].home))[2] >= 1

\* C6: the Total Games of a pair is the number of finished matches between
\* mapped teams of these two distinct owners; a pair without such a match has
\* no row, no row is of one owner against itself, no row has 0 games.
C6_TotalGames ==
    RivalryDone =>
        /\ \A A \in TheOwners : \A B \in TheOwners :
            LET rows == {k \in DOMAIN rivalry_df : rivalry_df[k].Matchup = <<A, B>>}
            IN  IF A < B /\ Games(A, B) # {}
                THEN /\ Cardinality(rows) = 1
                     /\ \A k \in rows :
                            rivalry_df[k].Total_Games = Cardinality(Games(A, B))
                ELSE rows = {}
        /\ \A k \in DOMAIN rivalry_df :
            /\ rivalry_df[k].Total_Games > 0
            /\ rivalry_df[k].Matchup[1] \in TheOwners
            /\ rivalry_df[k].Matchup[2] \in TheOwners

\* two matches, one between two teams of one owner, one row of one game
C6_Witness ==
    /\ RivalryDone
    /\ Len(TheMatches) = 2
    /\ \E i \in DOMAIN TheMatches :
        /\ TheMatches[i].status = "FINISHED"
        /\ Mapped(TheMatches[i].home) /\ Mapped(TheMatches[i].away)
        /\ OwnerOfName(TheMatches[i].home) = OwnerOfName(TheMatches[i].away)
    /\ Len(rivalry_df) = 1
    /\ rivalry_df[1].Total_Games = 1

\* the scale of the player medals, by season rank
MedalScale == <<5, 4, 3, 2, 1>>
SameSeason(k, l) == season_stats[k].Season = season_stats[l].Season

\* C9: in each season the owners are ranked by their summed points, highest
\* first, tied owners sharing the best position and the next positions being
\* skipped; the rank gives 5, 4, 3, 2, 1 medal points, then 0; an owner's
\* Player Medals is the sum over the seasons.
C9_PlayerMedals ==
    HistoryDone =>
        LET raw == file_history.rows
            ss == season_stats
        IN  /\ \A i \in DOMAIN raw : \E k \in DOMAIN ss :
                    ss[k].Season = raw[i].Season /\ ss[k].Owner = raw[i].Owner
            /\ \A k \in DOMAIN ss : \A l \in DOMAIN ss :
                    (ss[k].Season = ss[l].Season /\ ss[k].Owner = ss[l].Owner) => k = l
            /\ \A k \in DOMAIN ss :
                    ss[k].Pts = SumSeq([i \in DOMAIN raw |->
                                    IF raw[i].Season = ss[k].Season /\ raw[i].Owner = ss[k].Owner
                                    THEN raw[i].Pts ELSE 0])
            /\ \A k \in DOMAIN ss : \A l \in DOMAIN ss :
                    SameSeason(k, l) =>
                        /\ ss[k].Pts > ss[l].Pts => ss[k].Rank_In_Season < ss[l].Rank_In_Season
                        /\ ss[k].Pts = ss[l].Pts => ss[k].Rank_In_Season = ss[l].Rank_In_Season
            /\ \A k \in DOMAIN ss :
                    ss[k].Rank_In_Season =
                        1 + Cardinality({l \in DOMAIN ss :
                                SameSeason(k, l) /\ ss[l].Rank_In_Season < ss[k].Rank_In_Season})
            /\ \A k \in DOMAIN ss :
                    ss[k].Player_Medals =
                        IF ss[k].Rank_In_Season \in DOMAIN MedalScale
                        THEN MedalScale[ss[k].Rank_In_Season] ELSE 0
            /\ \A r \in DOMAIN history_summary :
                    history_summary[r].Player_Medals =
                        SumSeq([k \in DOMAIN ss |->
                                    IF ss[k].Owner = history_summary[r].Owner
                                    THEN ss[k].Player_Medals ELSE 0])

\* the fixture: points 50, 40, 40, 30, 20 give ranks 1, 2, 2, 4, 5 and medals
\* 5, 4, 4, 2, 1
C9_Witness ==
    /\ HistoryDone
    /\ \A o \in 1..5 : \E k \in DOMAIN season_stats :
        /\ season_stats[k].Season = 1
        /\ season_stats[k].Owner = o
        /\ season_stats[k].Pts = <<50, 40, 40, 30, 20>>[o]
        /\ season_stats[k].Rank_In_Season = <<1, 2, 2, 4, 5>>[o]
        /\ season_stats[k].Player_Medals = <<5, 4, 4, 2, 1>>[o]
    /\ \A r \in DOMAIN history_summary :
        history_summary[r].Owner = 3 => history_summary[r].Player_Medals = 4

\* C10: the summary has one row per owner of the archive, its Rank column is
\* 1..N in the order of the rows, and Money never rises from a row to the next.
C10_RankContiguous ==
    HistoryDone =>
        LET N == Cardinality(OwnersOf(file_history.rows))
        IN  /\ Len(history_summary) = N
            /\ {history_summary[i].Rank : i \in DOMAIN history_summary} = 1..N
            /\ {history_summary[i].Owner : i \in DOMAIN history_summary}
                 = OwnersOf(file_history.rows)
            /\ \A i \in DOMAIN history_summary : history_summary[i].Rank = i
            /\ \A i \in DOMAIN history_summary : \A j \in DOMAIN history_summary :
                 history_summary[i].Rank < history_summary[j].Rank =>
                     RatLeq(history_summary[j].Money, history_summary[i].Money)

\* the sort moved a later owner above an earlier one with less money
C10_Witness ==
    /\ HistoryDone
    /\ Len(history_summary) >= 3
    /\ history_summary[1].Owner > history_summary[2].Owner
    /\ ~RatLeq(history_summary[1].Money, history_summary[2].Money)
    /\ RatEq(history_summary[2].Money, history_summary[3].Money)

\* the owners and the summed points of one season of season_stats
SeasonOwners(season) ==
    {season_stats[k].Owner : k \in {l \in DOMAIN season_stats : season_stats[l].Season = season}}
SeasonPoints(season) ==
    SumSeq([k \in DOMAIN season_stats |->
                IF season_stats[k].Season = season THEN season_stats[k].Pts ELSE 0])

\* C1: in the standings and in every season of the history the quota is the
\* summed points over the number of distinct owners in that sum, and an
\* owner's money is (points - quota) * 10.
C1_QuotaByOwnerCount ==
    /\ (StandingsDone /\ owner_stats # <<>>) =>
          LET q == Rat(SumSeq(ColPts(owner_stats)), Cardinality(OwnersOf(owner_stats)))
          IN  /\ RatEq(quota, q)
              /\ \A i \in DOMAIN owner_stats :
                    RatEq(owner_stats[i].Money, RatScaledDiff(owner_stats[i].Pts, q, 10))
    /\ HistoryDone =>
          \A k \in DOMAIN season_stats :
              LET q == Rat(SeasonPoints(season_stats[k].Season),
                          Cardinality(SeasonOwners(season_stats[k].Season)))
              IN  /\ RatEq(season_stats[k].Quota, q)
                  /\ RatEq(season_stats[k].Money, RatScaledDiff(season_stats[k].Pts, q, 10))

\* C2: the Money column of the owner season summary sums to 0.
C2_ZeroSumMoney ==
    StandingsDone => RatSumSeq(ColOf(owner_stats, "Money")).n = 0

\* C3: after a failed fetch the script ends without an exception, shows
\* neither standings nor rivalry, and still shows the historical summary
\* computed from the archive.
C3_HistorySurvivesFetchFailure ==
    (pc = "done" /\ FetchFailed /\ file_assignments.exists) =>
        /\ raised = "none"
        /\ ~Shown("dataframe", "owner_stats")
        /\ ~Shown("dataframe", "merged_df")
        /\ ~Shown("dataframe", "rivalry_df")
        /\ file_history.rows # <<>> =>
              /\ HistoryDone
              /\ \E res \in calculate_historical_stats(
                                [none |-> FALSE, cols |-> BaseCols,
                                 rows |-> file_history.rows]) :
                    res.summary = history_summary

\* C4: a finished match without a winner adds nothing to a draw counter: the
\* draws of a pair are its matches the feed calls a DRAW.
C4_NullWinnerIsNoDraw ==
    RivalryDone =>
        \A A \in TheOwners : \A B \in TheOwners :
            A < B =>
                RecordOf(A, B)[1] =
                    Cardinality({i \in Games(A, B) : TheMatches[i].winner = "DRAW"})

Warned(name) == \E w \in ui : w.widget = "warning" /\ name \in w.teams
\* C7: every feed name without an owner, in the live table and in the
\* matches, is named in a warning, and the script goes on to its end.
C7_UnmatchedNamesSurfaced ==
    /\ StandingsDone =>
          \A i \in DOMAIN data_standings.table :
              (\A j \in DOMAIN assignments.rows :
                    assignments.rows[j].Team # StripName(data_standings.table[i].name))
                  => Warned(data_standings.table[i].name)
    /\ RivalryDone =>
          \A i \in DOMAIN TheMatches :
              /\ ~Mapped(TheMatches[i].home) => Warned(TheMatches[i].home)
              /\ ~Mapped(TheMatches[i].away) => Warned(TheMatches[i].away)
    /\ (pc = "done" /\ StandingsDone /\ data_matches.has_matches) => raised = "none"

\* C8: the call leaves the archive frame as it was loaded, and a second call
\* on it returns the same summary.
C8_ArchiveFrameUnchanged ==
    HistoryDone =>
        /\ history_raw = [none |-> FALSE, cols |-> BaseCols, rows |-> file_history.rows]
        /\ \E res \in calculate_historical_stats(history_raw) :
              res.summary = history_summary

====
